---- MODULE Spec2Model ----
(***************************************************************************)
(* Model of the generation service of the virtual photographer:            *)
(* src/services/geminiService.ts (generateStudioShot, extractImage) with   *)
(* the types of src/types.ts.                                              *)
(*                                                                         *)
(* Strings are sequences of tokens.  A literal of the source is one token, *)
(* an interpolated value keeps its own tokens, and a text whose length     *)
(* matters (the refusal text cut by substring, and the error messages it   *)
(* ends up in) is a sequence of runs of characters.  The empty string is   *)
(* << >>.  An optional value (undefined, null) is a sequence of length 0   *)
(* or 1.                                                                   *)
(***************************************************************************)
EXTENDS Integers, Sequences, FiniteSets, TLC

VARIABLES
    pc,            \* position of the running generateStudioShot invocation
    args,          \* its arguments: << >> before the first invocation
    calls,         \* the generateContent requests issued by the invocation, in order
    inflight,      \* the models whose generateContent promise is still pending
    error,         \* the variable `error` of the outer catch block
    proResponse,   \* `response` of the outer try block, while in scope
    flashResponse, \* `response` of the inner try block, while in scope
    fallbackError, \* the variable `fallbackError` of the inner catch block
    proSettled,    \* history: how the Pro promise settled and what it carried
    outcome,       \* how the promise returned by generateStudioShot settled
    ex,            \* an application of extractImage on its own
    built,         \* the two requests built from one set of arguments, on their own
    appState,      \* App: AppState
    selectedBg,    \* App: the selected BackgroundOption
    selectedLighting, \* App: the selected LightingOption
    settings,      \* App: CameraSettings
    gallery,       \* App: the GeneratedImage list, newest first
    errorMessage,  \* App: << >> for null, else <<message>>
    hasApiKey,     \* App: the main screen is rendered, else the key screen
    manualApiKey,  \* App: the text of the key input
    isAIStudioEnv, \* App: window.aistudio exists
    keyChecked,    \* the promise of checkKey has settled
    timers,        \* pending 50 ms timers set by triggerCapture
    camera,        \* Camera: unmounted, or starting, streaming, in its error view
    started,       \* calls of generateStudioShot by handleCapture not yet settled
    nextId,        \* the ids crypto.randomUUID has handed out, plus one
    viewedImage,   \* App: << >> for null, else <<the GeneratedImage in the preview>>
    cam            \* Camera on its own: its refs, its state and the streams acquired

serviceVars ==
    <<pc, args, calls, inflight, error, proResponse, flashResponse, fallbackError,
      proSettled, outcome>>

appVars ==
    <<appState, selectedBg, selectedLighting, settings, gallery, errorMessage,
      hasApiKey, manualApiKey, isAIStudioEnv, keyChecked, timers, camera, started,
      nextId, viewedImage>>

vars == <<serviceVars, ex, built, cam, appVars>>

----------------------------------------------------------------------------
(* Bounds of the model *)

MaxCandidates == 2
MaxParts == 2
MaxTextLen == 101
MaxShots == 2
MaxTimers == 2
MaxStreams == 3

(* text.substring(0, 100) *)
SubstringLimit == 100

(* manualApiKey.trim().length > 10 and manualApiKey.length < 10 *)
KeyLimit == 10

----------------------------------------------------------------------------
(* Strings *)

Min(a, b) == IF a < b THEN a ELSE b

\* A text whose length matters is a sequence of runs: [c |-> x, n |-> k] is
\* the character x repeated k >= 1 times, and neighbouring runs differ in
\* their character.  A literal of the source is a run of one token.
Run(c, n) == [c |-> c, n |-> n]

Lit(s) == <<Run(s, 1)>>

\* s.length
RECURSIVE TextLen(_)
TextLen(s) == IF s = << >> THEN 0 ELSE Head(s).n + TextLen(Tail(s))

\* s.substring(0, n)
RECURSIVE Substring0(_, _)
Substring0(s, n) ==
    IF s = << >> \/ n <= 0 THEN << >>
    ELSE IF Head(s).n <= n
         THEN <<Head(s)>> \o Substring0(Tail(s), n - Head(s).n)
         ELSE <<Run(Head(s).c, n)>>

IsPrefix(p, s) == Substring0(s, TextLen(p)) = p

Sorry == <<Run("S", 1), Run("o", 1), Run("r", 2), Run("y", 1)>>

\* a text of n >= 5 characters that starts with "Sorry"
SorryText(n) ==
    IF n > TextLen(Sorry) THEN Sorry \o <<Run(".", n - TextLen(Sorry))>> ELSE Sorry

----------------------------------------------------------------------------
(* src/types.ts *)

BackgroundTypes == {"solid", "gradient", "texture", "image"}

AspectRatios == {"1:1", "3:4", "4:3", "16:9", "9:16"}

LightingDirections ==
    {"left", "right", "top", "top-left", "top-right", "front", "back", "bottom"}

PRESET_LIGHTING ==
    << [id |-> "studio-soft", name |-> "Softbox",
        value |-> <<"soft, diffused professional studio lighting, even illumination, soft shadows">>],
       [id |-> "natural-sun", name |-> "Sunlight",
        value |-> <<"natural bright sunlight, warm tones, sharp realistic cast shadows">>],
       [id |-> "dramatic", name |-> "Dramatic",
        value |-> <<"high contrast dramatic lighting, rim lighting (backlight), dark moody shadows">>],
       [id |-> "neon", name |-> "Neon",
        value |-> <<"cyberpunk neon lighting, blue and pink rim lights, glowing atmosphere">>],
       [id |-> "hard", name |-> "Hard",
        value |-> <<"direct hard flash photography, sharp defined shadows, pop-art style">>] >>

PRESET_BACKGROUNDS ==
    << [id |-> "gradient-sunset", name |-> "Sunset", type |-> "gradient",
        value |-> <<"vibrant sunset orange to purple gradient studio background">>,
        imageSrc |-> << >>],
       [id |-> "gradient-blue", name |-> "Tech Blue", type |-> "gradient",
        value |-> <<"futuristic cyan to deep blue neon gradient background">>,
        imageSrc |-> << >>],
       [id |-> "tex-wood", name |-> "Wood", type |-> "texture",
        value |-> <<"natural warm oak wooden table surface with blurred background">>,
        imageSrc |-> << >>],
       [id |-> "tex-marble", name |-> "Marble", type |-> "texture",
        value |-> <<"luxury white carrara marble surface background">>,
        imageSrc |-> << >>],
       [id |-> "tex-concrete", name |-> "Concrete", type |-> "texture",
        value |-> <<"industrial minimal grey concrete surface">>,
        imageSrc |-> << >>] >>

\* the background built by handleColorUpdate for a picked colour
SolidBackground(hex) ==
    [id |-> "custom-solid", name |-> "Solid Color", type |-> "solid",
     value |-> hex, imageSrc |-> << >>]

\* the background built by handleFileUpload from the FileReader result
\* (null, here << >>, when the read failed)
UploadedBackground(base64) ==
    [id |-> "custom-upload", name |-> "Custom Image", type |-> "image",
     value |-> <<"custom image background">>, imageSrc |-> base64]

----------------------------------------------------------------------------
(* Prompt construction, src/services/geminiService.ts lines 15-81, 105-119 *)

\* the headers matched by /^data:image\/(png|jpeg|webp);base64,/
StrippedHeaders ==
    {"data:image/png;base64,", "data:image/jpeg;base64,", "data:image/webp;base64,"}

\* s.replace(/^data:image\/(png|jpeg|webp);base64,/, "")
StripDataUriHeader(s) ==
    IF s # << >> /\ Head(s) \in StrippedHeaders THEN Tail(s) ELSE s

\* a description of a solid background that leaves the colour out
bgDescription_NoColour(background) ==
    IF background.type = "solid"
    THEN <<"a solid, flat, matte background">>
    ELSE background.value

bgDescription(background) ==
    IF background.type = "solid"
    THEN <<"a solid, flat, matte background of this exact color: ">> \o background.value
    ELSE background.value

\* directionMap is an object literal: a key it does not define is looked up
\* in Object.prototype, whose members are functions, all of them truthy
InheritedProperties == {"constructor", "toString", "valueOf"}

\* `${f}` for a built-in function f
InheritedText(key) ==
    CASE key = "constructor" -> "function Object() { [native code] }"
      [] key = "toString" -> "function toString() { [native code] }"
      [] key = "valueOf" -> "function valueOf() { [native code] }"

\* directionMap[dir], << >> when undefined
directionMap(dir) ==
    CASE dir = "left" -> <<"coming from the left side">>
      [] dir = "right" -> <<"coming from the right side">>
      [] dir = "top" -> <<"overhead lighting coming from the top">>
      [] dir = "top-left" -> <<"coming from the top-left">>
      [] dir = "top-right" -> <<"coming from the top-right">>
      [] dir = "front" -> <<"direct frontal lighting">>
      [] dir = "bottom" -> <<"coming from below (uplighting)">>
      [] dir = "back" -> <<"backlighting (rim light)">>
      [] dir \in InheritedProperties -> <<InheritedText(dir)>>
      [] OTHER -> << >>

\* directionMap[settings.lightingDirection] || 'professional studio lighting'
lightDirText(cameraSettings) ==
    IF directionMap(cameraSettings.lightingDirection) # << >>
    THEN directionMap(cameraSettings.lightingDirection)
    ELSE <<"professional studio lighting">>

\* background.type === 'image' && background.imageSrc
HasBackgroundImage(background) ==
    background.type = "image" /\ background.imageSrc # << >>

\* the text-described-scene template of the Pro model, lines 40-57
ProScenePrompt(background, lighting, cameraSettings) ==
    <<"You are a professional commercial product photographer and high-end retoucher. ",
      "OBJECTIVE: Composite the foreground object (product) from the input image onto a new background description: \"">>
    \o bgDescription(background)
    \o <<"\". STRICT RULES FOR SUBJECT PRESERVATION (DO NOT IGNORE): ",
         "1. THE PRODUCT IS SACRED 2. PRESERVE TEXT & LOGOS 3. PRESERVE TEXTURE 4. NO HALLUCINATIONS ",
         "PHOTOGRAPHY SETTINGS: - OUTPUT QUALITY: 4K Ultra High Definition (3840x2160). ",
         "- LIGHTING: Apply \"">>
    \o lighting.value
    \o <<"\". - LIGHT DIRECTION: Light source ">>
    \o lightDirText(cameraSettings)
    \o <<". - SHADOWS: Cast realistic, physically accurate shadows from the product onto the new background.">>

\* the two-image composition template of the Pro model, lines 67-78
ProCompositePrompt(lighting, cameraSettings) ==
    <<"You are an expert high-end commercial retoucher. ",
      "TASK: Composite the product from Image 1 onto the background scene in Image 2. ",
      "RULES: 1. PRESERVE IDENTITY 2. PERSPECTIVE ",
      "3. LIGHTING MATCH: Apply lighting style \"">>
    \o lighting.value
    \o <<"\" with direction ">>
    \o lightDirText(cameraSettings)
    \o <<" to match the background environment. 4. QUALITY: 4K Ultra High Definition.">>

\* the simplified text-described-scene prompt of the Flash model, line 107
FlashScenePrompt(background, lighting) ==
    <<"Product photography. Keep the product exactly as it looks in the original image. Do not change the product. Only change the background to: ">>
    \o bgDescription(background)
    \o <<". Lighting: ">>
    \o lighting.value
    \o <<". High quality 4K.">>

\* the simplified two-image prompt of the Flash model, line 116
FlashCompositePrompt ==
    <<"Composite product from image 1 into image 2. Keep product exact. High quality.">>

InlinePart(data) == [kind |-> "inlineData", mimeType |-> "image/jpeg", data |-> data]

TextPart(text) == [kind |-> "text", mimeType |-> "", data |-> text]

\* parts that carry the background image under the text-described-scene prompt
ProParts_SceneWithImage(a) ==
    <<InlinePart(StripDataUriHeader(a.imageBase64))>>
    \o (IF HasBackgroundImage(a.background)
        THEN <<InlinePart(StripDataUriHeader(a.background.imageSrc))>>
        ELSE << >>)
    \o <<TextPart(ProScenePrompt(a.background, a.lighting, a.settings))>>

\* `parts` as sent to the Pro model, lines 59-81
ProParts(a) ==
    <<InlinePart(StripDataUriHeader(a.imageBase64))>>
    \o (IF HasBackgroundImage(a.background)
        THEN <<InlinePart(StripDataUriHeader(a.background.imageSrc)),
               TextPart(ProCompositePrompt(a.lighting, a.settings))>>
        ELSE <<TextPart(ProScenePrompt(a.background, a.lighting, a.settings))>>)

\* flashParts without the background image
FlashParts_NoBackground(a) ==
    <<InlinePart(StripDataUriHeader(a.imageBase64))>>
    \o (IF HasBackgroundImage(a.background)
        THEN <<TextPart(FlashCompositePrompt)>>
        ELSE <<TextPart(FlashScenePrompt(a.background, a.lighting))>>)

\* `flashParts` as sent to the Flash model, lines 107-119
FlashParts(a) ==
    <<InlinePart(StripDataUriHeader(a.imageBase64))>>
    \o (IF HasBackgroundImage(a.background)
        THEN <<InlinePart(StripDataUriHeader(a.background.imageSrc)),
               TextPart(FlashCompositePrompt)>>
        ELSE <<TextPart(FlashScenePrompt(a.background, a.lighting))>>)

\* process.env.API_KEY as the build defines it
API_KEY == <<Run("E", KeyLimit + 1)>>

\* a client that takes the ambient key also when the caller supplies one
Credential_AmbientFirst(apiKey) == IF API_KEY # << >> THEN API_KEY ELSE apiKey

\* apiKey || process.env.API_KEY, line 13: the key of the client `ai` that
\* issues both requests
Credential(apiKey) == IF apiKey # << >> THEN apiKey ELSE API_KEY

\* the request of lines 85-94: config is << >> when the request has none
ProRequest(a) ==
    [model |-> "gemini-3-pro-image-preview",
     parts |-> ProParts(a),
     config |-> <<[imageSize |-> "4K", aspectRatio |-> a.settings.aspectRatio]>>,
     apiKey |-> Credential(a.apiKey)]

\* a Flash request that carries the config of the Pro request
FlashRequest_WithConfig(a) ==
    [model |-> "gemini-2.5-flash-image",
     parts |-> FlashParts(a),
     config |-> <<[imageSize |-> "4K", aspectRatio |-> a.settings.aspectRatio]>>,
     apiKey |-> Credential(a.apiKey)]

\* the request of lines 121-125
FlashRequest(a) ==
    [model |-> "gemini-2.5-flash-image",
     parts |-> FlashParts(a),
     config |-> << >>,
     apiKey |-> Credential(a.apiKey)]

----------------------------------------------------------------------------
(* Response envelopes of generateContent *)

\* inline payloads a response part may carry: "" and two images
Payloads == {<< >>, <<"iVBORw0KGgo">>, <<"R0lGODlhAQAB">>}

\* texts a response part may carry: "", "Sorry", and texts starting with
\* "Sorry" of the substring limit and above
Texts == {<< >>, SorryText(TextLen(Sorry)), SorryText(MaxTextLen - 1), SorryText(MaxTextLen)}

\* a part of a response: {inlineData: {data}} or {text}
InlineDataPart(d) == [kind |-> "inlineData", data |-> d]

TextOnlyPart(t) == [kind |-> "text", data |-> t]

ResponseParts ==
    {InlineDataPart(d) : d \in Payloads} \cup {TextOnlyPart(t) : t \in Texts}

\* the parts of the responses the two models are given to answer with
ServiceParts ==
    {InlineDataPart(d) : d \in Payloads \ {<< >>}}
    \cup {TextOnlyPart(t) : t \in Texts \ {SorryText(TextLen(Sorry))}}

SeqsUpTo(S, n) == UNION {[1..k -> S] : k \in 0..n}

\* a candidate: content missing, content without parts, or content.parts
\* with at most n parts of P
CandidatesUpTo(P, n) ==
    {[content |-> c, parts |-> << >>] : c \in {"absent", "noParts"}}
    \cup {[content |-> "parts", parts |-> ps] : ps \in SeqsUpTo(P, n)}

\* the lists of k candidates holding at most n parts of P together
RECURSIVE CandidateLists(_, _, _)
CandidateLists(P, k, n) ==
    IF k = 0 THEN {<< >>}
    ELSE UNION {{<<c>> \o rest : rest \in CandidateLists(P, k - 1, n - Len(c.parts))} :
                  c \in CandidatesUpTo(P, n)}

\* the envelopes over the parts P: candidates missing, or at most
\* MaxCandidates candidates holding at most MaxParts parts together
ResponsesOver(P) ==
    {[candidates |-> "absent", list |-> << >>]}
    \cup {[candidates |-> "present", list |-> cs] :
            cs \in UNION {CandidateLists(P, k, MaxParts) : k \in 0..MaxCandidates}}

Responses == ResponsesOver(ResponseParts)

ServiceResponses == ResponsesOver(ServiceParts)

\* messages of the errors a generateContent promise rejects with
RemoteErrorMessages ==
    {<< >>, Lit("Permission denied"), Lit("Requested entity was not found.")}

----------------------------------------------------------------------------
(* extractImage, src/services/geminiService.ts lines 142-156 *)

\* response.candidates?.[0]?.content?.parts : << >> when undefined
contentParts(response) ==
    IF response.candidates = "present" /\ response.list # << >>
       /\ Head(response.list).content = "parts"
    THEN <<Head(response.list).parts>>
    ELSE << >>

\* part.inlineData && part.inlineData.data
HasInlineData(part) == part.kind = "inlineData" /\ part.data # << >>

\* a loop that returns the payload without the data URI header
RECURSIVE FirstInlineData_NoHeader(_)
FirstInlineData_NoHeader(parts) ==
    IF parts = << >> THEN << >>
    ELSE IF HasInlineData(Head(parts))
         THEN <<Head(parts).data>>
         ELSE FirstInlineData_NoHeader(Tail(parts))

\* a loop that keeps the last payload instead of returning the first
RECURSIVE FirstInlineData_Last(_)
FirstInlineData_Last(parts) ==
    IF parts = << >> THEN << >>
    ELSE IF FirstInlineData_Last(Tail(parts)) # << >>
         THEN FirstInlineData_Last(Tail(parts))
         ELSE IF HasInlineData(Head(parts))
              THEN << <<"data:image/png;base64,">> \o Head(parts).data >>
              ELSE << >>

\* the for loop of lines 146-150 : << >> when it ends without returning
RECURSIVE FirstInlineData(_)
FirstInlineData(parts) ==
    IF parts = << >> THEN << >>
    ELSE IF HasInlineData(Head(parts))
         THEN << <<"data:image/png;base64,">> \o Head(parts).data >>
         ELSE FirstInlineData(Tail(parts))

\* an extraction that reads the last candidate instead of the first
extractImage_LastCandidate(response) ==
    IF response.candidates = "present" /\ response.list # << >>
       /\ response.list[Len(response.list)].content = "parts"
    THEN FirstInlineData(response.list[Len(response.list)].parts)
    ELSE << >>

\* << >> is null, <<uri>> a data URI
extractImage(response) ==
    IF contentParts(response) # << >>
    THEN FirstInlineData(contentParts(response)[1])
    ELSE << >>

\* response.candidates?.[0]?.content?.parts?.[0]?.text, line 129 :
\* << >> when undefined or ""
firstPartText(response) ==
    IF contentParts(response) # << >> /\ contentParts(response)[1] # << >>
       /\ contentParts(response)[1][1].kind = "text"
    THEN contentParts(response)[1][1].data
    ELSE << >>

----------------------------------------------------------------------------
(* What an envelope holds, read off the envelope itself *)

\* the parts of all candidates, in candidate order then part order
RECURSIVE AllParts(_)
AllParts(cs) == IF cs = << >> THEN << >> ELSE Head(cs).parts \o AllParts(Tail(cs))

\* the parts of the first candidate
FirstCandidateParts(response) ==
    IF response.list = << >> THEN << >> ELSE response.list[1].parts

\* the places of ps that hold an inline part / one with a non-empty payload
InlineAt(ps) == {j \in 1..Len(ps) : ps[j].kind = "inlineData"}

PayloadAt(ps) == {j \in InlineAt(ps) : ps[j].data # << >>}

Least(S) == CHOOSE j \in S : \A k \in S : j <= k

\* some part of some candidate is an inline part
ContainsInlinePart(response) == InlineAt(AllParts(response.list)) # {}

\* some part of the first candidate carries a non-empty inline payload
FirstCandidateHasPayload(response) == PayloadAt(FirstCandidateParts(response)) # {}

\* the data URI of the first non-empty inline payload of the parts ps
FirstPayloadUri(ps) == <<"data:image/png;base64,">> \o ps[Least(PayloadAt(ps))].data

----------------------------------------------------------------------------
(* generateStudioShot, src/services/geminiService.ts lines 4-140 *)

\* the frame produced by canvas.toDataURL('image/jpeg', 0.95)
CaptureImages == {<<"data:image/jpeg;base64,", "/9j/4AAQSkZJRg">>}

\* backgrounds the control panel can select: a picked colour, a preset,
\* an uploaded image, and an upload whose read produced no result
ServiceBackgrounds ==
    {SolidBackground(<<"#ff8800">>),
     PRESET_BACKGROUNDS[3],
     UploadedBackground(<<"data:image/png;base64,", "iVBORw0KGgoAAAANSUhEUg">>),
     UploadedBackground(<< >>)}

ServiceLightings == {PRESET_LIGHTING[1]}

ServiceSettings ==
    {[aspectRatio |-> r, lightingDirection |-> "front"] : r \in {"1:1", "16:9"}}

\* the optional argument apiKey: absent, or a key the caller supplies
ServiceKeys == {<< >>, <<Run("k", KeyLimit + 1)>>}

Invocations ==
    [imageBase64 : CaptureImages, background : ServiceBackgrounds,
     lighting : ServiceLightings, settings : ServiceSettings, apiKey : ServiceKeys]

Pending == [status |-> "pending", value |-> << >>]

ProPending == [how |-> "pending", inline |-> FALSE, payload |-> FALSE]

ProResolved(response) ==
    [how |-> "resolved", inline |-> ContainsInlinePart(response),
     payload |-> FirstCandidateHasPayload(response)]

ProRejected == [how |-> "rejected", inline |-> FALSE, payload |-> FALSE]

Fulfilled(img) == [status |-> "fulfilled", value |-> img]

Rejected(message) == [status |-> "rejected", value |-> message]

NoImageFromPro == Lit("Pro model returned no image.")

\* a refusal cut one character too late
FlashNoImageMessage_CutLate(response) ==
    IF firstPartText(response) # << >>
    THEN Lit("AI Refusal: ") \o Substring0(firstPartText(response), SubstringLimit + 1)
    ELSE Lit("No image generated by fallback model.")

\* a refusal thrown without looking whether there is a text
FlashNoImageMessage_AlwaysRefusal(response) ==
    Lit("AI Refusal: ") \o Substring0(firstPartText(response), SubstringLimit)

\* the error thrown inside the inner try when the Flash response has no
\* image, lines 128-132
FlashNoImageMessage(response) ==
    IF firstPartText(response) # << >>
    THEN Lit("AI Refusal: ") \o Substring0(firstPartText(response), SubstringLimit)
    ELSE Lit("No image generated by fallback model.")

\* error.message || fallbackError.message || "Failed to generate image."
SurfacedMessage_PrimaryFirst(fallbackMessage, primaryMessage) ==
    IF primaryMessage # << >> THEN primaryMessage
    ELSE IF fallbackMessage # << >> THEN fallbackMessage
    ELSE Lit("Failed to generate image.")

\* fallbackError.message || error.message || "Failed to generate image."
SurfacedMessage(fallbackMessage, primaryMessage) ==
    IF fallbackMessage # << >> THEN fallbackMessage
    ELSE IF primaryMessage # << >> THEN primaryMessage
    ELSE Lit("Failed to generate image.")

\* an invocation that issues both requests at once
Invoke_BothAtOnce(a) ==
    /\ pc = "idle"
    /\ pc' = "awaitPro"
    /\ args' = <<a>>
    /\ calls' = <<ProRequest(a), FlashRequest(a)>>
    /\ inflight' = {"pro", "flash"}
    /\ error' = << >>
    /\ proResponse' = << >>
    /\ flashResponse' = << >>
    /\ fallbackError' = << >>
    /\ proSettled' = ProPending
    /\ outcome' = Pending
    /\ UNCHANGED ex

\* a call of generateStudioShot runs up to the first await, line 85
Invoke(a) ==
    /\ pc = "idle"
    /\ pc' = "awaitPro"
    /\ args' = <<a>>
    /\ calls' = <<ProRequest(a)>>
    /\ inflight' = {"pro"}
    /\ error' = << >>
    /\ proResponse' = << >>
    /\ flashResponse' = << >>
    /\ fallbackError' = << >>
    /\ proSettled' = ProPending
    /\ outcome' = Pending
    /\ UNCHANGED ex

\* the catch block is entered with `error` and runs up to the await of
\* line 121
EnterCatch(message) ==
    /\ pc' = "awaitFlash"
    /\ error' = <<message>>
    /\ proResponse' = << >>
    /\ calls' = Append(calls, FlashRequest(args[1]))
    /\ inflight' = {"flash"}
    /\ UNCHANGED <<args, flashResponse, fallbackError, outcome, ex>>

\* a Pro response without an image rejects the invocation at once
ProResolve_NoFallback(response) ==
    /\ pc = "awaitPro"
    /\ proSettled' = ProResolved(response)
    /\ pc' = "done"
    /\ proResponse' = <<response>>
    /\ inflight' = {}
    /\ outcome' =
         IF extractImage(response) # << >>
         THEN Fulfilled(extractImage(response)[1])
         ELSE Rejected(NoImageFromPro)
    /\ UNCHANGED <<args, calls, error, flashResponse, fallbackError, ex>>

\* the Pro call resolves: lines 96-99, then the catch block when there is
\* no image
ProResolve(response) ==
    /\ pc = "awaitPro"
    /\ proSettled' = ProResolved(response)
    /\ IF extractImage(response) # << >>
       THEN /\ pc' = "done"
            /\ proResponse' = <<response>>
            /\ inflight' = {}
            /\ outcome' = Fulfilled(extractImage(response)[1])
            /\ UNCHANGED <<args, calls, error, flashResponse, fallbackError, ex>>
       ELSE EnterCatch(NoImageFromPro)

\* the Pro call rejects: the catch block of line 101
ProReject(message) ==
    /\ pc = "awaitPro"
    /\ proSettled' = ProRejected
    /\ EnterCatch(message)

\* the Flash call resolves: lines 127-133, and lines 134-138 when the
\* response has no image
FlashResolve(response) ==
    /\ pc = "awaitFlash"
    /\ pc' = "done"
    /\ flashResponse' = <<response>>
    /\ inflight' = {}
    /\ IF extractImage(response) # << >>
       THEN /\ outcome' = Fulfilled(extractImage(response)[1])
            /\ UNCHANGED fallbackError
       ELSE /\ fallbackError' = <<FlashNoImageMessage(response)>>
            /\ outcome' = Rejected(SurfacedMessage(FlashNoImageMessage(response), error[1]))
    /\ UNCHANGED <<args, calls, error, proResponse, proSettled, ex>>

\* an inner catch that logs the error and falls out of the function
FlashReject_Swallow(message) ==
    /\ pc = "awaitFlash"
    /\ pc' = "done"
    /\ inflight' = {}
    /\ fallbackError' = <<message>>
    /\ outcome' = Fulfilled(<< >>)
    /\ UNCHANGED <<args, calls, error, proResponse, flashResponse, proSettled, ex>>

\* an inner catch that sends the Flash request once more before it gives up
FlashReject_Retry(message) ==
    /\ pc = "awaitFlash"
    /\ fallbackError' = <<message>>
    /\ IF Len(calls) < 3
       THEN /\ calls' = Append(calls, FlashRequest(args[1]))
            /\ UNCHANGED <<pc, inflight, outcome>>
       ELSE /\ pc' = "done"
            /\ inflight' = {}
            /\ outcome' = Rejected(SurfacedMessage(message, error[1]))
            /\ UNCHANGED calls
    /\ UNCHANGED <<args, error, proResponse, flashResponse, proSettled, ex>>

\* the Flash call rejects: lines 134-138
FlashReject(message) ==
    /\ pc = "awaitFlash"
    /\ pc' = "done"
    /\ inflight' = {}
    /\ fallbackError' = <<message>>
    /\ outcome' = Rejected(SurfacedMessage(message, error[1]))
    /\ UNCHANGED <<args, calls, error, proResponse, flashResponse, proSettled, ex>>

NotExtracting == [response |-> << >>, result |-> << >>, applied |-> FALSE]

NotBuilding == [args |-> << >>, requests |-> << >>]

\* Camera before it is rendered (src/components/Camera.tsx lines 16-19): no
\* instance, no video element, no request to getUserMedia made, no stream
\* acquired, in a browser that has navigator.mediaDevices
NoCamera ==
    [mounted |-> FALSE, instance |-> 0, srcObject |-> << >>, loading |-> FALSE,
     streamStarted |-> FALSE, error |-> FALSE, pending |-> {}, live |-> {},
     requested |-> 0, supported |-> TRUE]

\* the state of App after its first render and the synchronous part of its
\* effect, src/App.tsx lines 10-53; in the standalone environment checkKey
\* has nothing to wait for
AppMounted(aistudio) ==
    /\ appState = "IDLE"
    /\ selectedBg = PRESET_BACKGROUNDS[1]
    /\ selectedLighting = PRESET_LIGHTING[1]
    /\ settings = [aspectRatio |-> "1:1", lightingDirection |-> "front"]
    /\ gallery = << >>
    /\ errorMessage = << >>
    /\ hasApiKey = FALSE
    /\ manualApiKey = << >>
    /\ isAIStudioEnv = aistudio
    /\ keyChecked = ~aistudio
    /\ timers = 0
    /\ camera = "unmounted"
    /\ started = 0
    /\ nextId = 1
    /\ viewedImage = << >>

Init ==
    /\ pc = "idle"
    /\ args = << >>
    /\ calls = << >>
    /\ inflight = {}
    /\ error = << >>
    /\ proResponse = << >>
    /\ flashResponse = << >>
    /\ fallbackError = << >>
    /\ proSettled = ProPending
    /\ outcome = Pending
    /\ ex = NotExtracting
    /\ built = NotBuilding
    /\ cam = NoCamera
    /\ AppMounted(FALSE)

\* the pending promise of the position settles, one way or the other
Next ==
    \/ UNCHANGED <<built, cam, appVars>> /\ \E a \in Invocations : Invoke(a)
    \/ UNCHANGED <<built, cam, appVars>> /\ pc = "awaitPro"
          /\ \E r \in ServiceResponses : ProResolve(r)
    \/ UNCHANGED <<built, cam, appVars>> /\ pc = "awaitPro"
          /\ \E m \in RemoteErrorMessages : ProReject(m)
    \/ UNCHANGED <<built, cam, appVars>> /\ pc = "awaitFlash"
          /\ \E r \in ServiceResponses : FlashResolve(r)
    \/ UNCHANGED <<built, cam, appVars>> /\ pc = "awaitFlash"
          /\ \E m \in RemoteErrorMessages : FlashReject(m)

Spec == Init /\ [][Next]_vars

----------------------------------------------------------------------------
(* extractImage applied to every envelope *)

InitExtract ==
    /\ pc = "idle"
    /\ args = << >>
    /\ calls = << >>
    /\ inflight = {}
    /\ error = << >>
    /\ proResponse = << >>
    /\ flashResponse = << >>
    /\ fallbackError = << >>
    /\ proSettled = ProPending
    /\ outcome = Pending
    /\ \E r \in Responses : ex = [response |-> <<r>>, result |-> << >>, applied |-> FALSE]
    /\ built = NotBuilding
    /\ cam = NoCamera
    /\ AppMounted(FALSE)

Extract ==
    /\ ~ex.applied
    /\ ex' = [ex EXCEPT !.result = extractImage(ex.response[1]), !.applied = TRUE]
    /\ UNCHANGED <<serviceVars, built, cam, appVars>>

NextExtract == Extract

SpecExtract == InitExtract /\ [][NextExtract]_vars

----------------------------------------------------------------------------
(* The requests of lines 15-94 and 105-125 built for every set of arguments *)

\* values of background.value for a picked colour
Colours == {<<"#ff8800">>, <<"#FFFFFF">>, <<"rgb(12, 34, 56)">>}

\* every preset, picked colours, uploads (with a header the service strips,
\* with one it does not strip, and unread), and a solid background that
\* carries an imageSrc, which BackgroundOption allows
BuildBackgrounds ==
    {PRESET_BACKGROUNDS[i] : i \in DOMAIN PRESET_BACKGROUNDS}
    \cup {SolidBackground(c) : c \in Colours}
    \cup {UploadedBackground(<<"data:image/png;base64,", "iVBORw0KGgoAAAANSUhEUg">>),
          UploadedBackground(<<"data:image/gif;base64,", "R0lGODlhAQABAAAAACw">>),
          UploadedBackground(<< >>),
          [SolidBackground(<<"#ff8800">>) EXCEPT
              !.imageSrc = <<"data:image/png;base64,", "iVBORw0KGgoAAAANSUhEUg">>]}

\* values of settings.lightingDirection outside LightingDirections
OutsideDirections == {"", "diagonal"} \cup InheritedProperties

BuildSettings ==
    [aspectRatio : AspectRatios,
     lightingDirection : LightingDirections \cup OutsideDirections]

BuildInvocations ==
    [imageBase64 : CaptureImages,
     background : BuildBackgrounds,
     lighting : {PRESET_LIGHTING[i] : i \in DOMAIN PRESET_LIGHTING},
     settings : BuildSettings,
     apiKey : ServiceKeys]

InitBuild ==
    /\ pc = "idle"
    /\ args = << >>
    /\ calls = << >>
    /\ inflight = {}
    /\ error = << >>
    /\ proResponse = << >>
    /\ flashResponse = << >>
    /\ fallbackError = << >>
    /\ proSettled = ProPending
    /\ outcome = Pending
    /\ ex = NotExtracting
    /\ \E a \in BuildInvocations : built = [args |-> <<a>>, requests |-> << >>]
    /\ cam = NoCamera
    /\ AppMounted(FALSE)

Build ==
    /\ built.args # << >>
    /\ built.requests = << >>
    /\ built' = [built EXCEPT
                    !.requests = <<ProRequest(built.args[1]), FlashRequest(built.args[1])>>]
    /\ UNCHANGED <<serviceVars, ex, cam, appVars>>

NextBuild == Build

SpecBuild == InitBuild /\ [][NextBuild]_vars

----------------------------------------------------------------------------
(* src/App.tsx with the capture path of src/components/Camera.tsx *)

\* s.trim(), on a text of runs
RECURSIVE TrimStart(_)
TrimStart(s) == IF s # << >> /\ Head(s).c = " " THEN TrimStart(Tail(s)) ELSE s

RECURSIVE TrimEnd(_)
TrimEnd(s) ==
    IF s # << >> /\ s[Len(s)].c = " " THEN TrimEnd(SubSeq(s, 1, Len(s) - 1)) ELSE s

Trim(s) == TrimEnd(TrimStart(s))

\* text.includes(phrase), for a phrase that is one token of the text
Includes(text, phrase) == \E i \in 1..Len(text) : text[i].c = phrase

\* texts of the key input: empty, too short for the submit button, long
\* enough for the button only, accepted, and accepted by the button but too
\* short once trimmed
ManualKeys ==
    {<< >>,
     <<Run("k", KeyLimit - 1)>>,
     <<Run("k", KeyLimit)>>,
     <<Run("k", KeyLimit + 1)>>,
     <<Run(" ", 1), Run("k", KeyLimit)>>}

\* the envelopes the models answer a capture with: an image, a refusal,
\* and an envelope without candidates
AppResponses ==
    {[candidates |-> "present",
      list |-> <<[content |-> "parts", parts |-> <<InlineDataPart(<<"iVBORw0KGgo">>)>>]>>],
     [candidates |-> "present",
      list |-> <<[content |-> "parts", parts |-> <<TextOnlyPart(SorryText(MaxTextLen))>>]>>],
     [candidates |-> "absent", list |-> << >>]}

\* messages the generateContent promises reject with: none, one of an
\* ordinary failure, and the two that handleCapture reads as a bad key
AppErrorMessages ==
    {<< >>,
     Lit("Permission denied"),
     <<Run("Requested entity was not found", 1), Run(".", 1)>>,
     <<Run("API key not valid", 1), Run(". Please pass a valid API key.", 1)>>}

ServiceIdle ==
    /\ pc = "idle"
    /\ args = << >>
    /\ calls = << >>
    /\ inflight = {}
    /\ error = << >>
    /\ proResponse = << >>
    /\ flashResponse = << >>
    /\ fallbackError = << >>
    /\ proSettled = ProPending
    /\ outcome = Pending

\* the continuation of a settled promise runs before any event handler or
\* timer callback
NoContinuationQueued == pc # "done"

\* setHasApiKey(has): the main screen, and with it Camera, is mounted while
\* hasApiKey holds (App.tsx line 134)
SetHasApiKey(has) ==
    /\ hasApiKey' = has
    /\ camera' = IF ~has THEN "unmounted"
                 ELSE IF hasApiKey THEN camera
                 ELSE "starting"

\* checkKey of the mount effect settles, lines 38-52
CheckKeyResolve(has) ==
    /\ NoContinuationQueued
    /\ isAIStudioEnv
    /\ ~keyChecked
    /\ keyChecked' = TRUE
    /\ SetHasApiKey(has)
    /\ UNCHANGED <<serviceVars, ex, built, viewedImage, cam, appState, selectedBg, selectedLighting,
                   settings, gallery, errorMessage, manualApiKey, isAIStudioEnv,
                   timers, started, nextId>>

\* handleConnectKey, lines 55-65, when openSelectKey settles: from the
\* button of the key screen or from the header button (lines 206-207)
ConnectKey(ok) ==
    /\ NoContinuationQueued
    /\ isAIStudioEnv
    /\ SetHasApiKey(ok)
    /\ UNCHANGED <<serviceVars, ex, built, viewedImage, cam, appState, selectedBg, selectedLighting,
                   settings, gallery, errorMessage, manualApiKey, isAIStudioEnv,
                   keyChecked, timers, started, nextId>>

\* onChange of the key input, line 162
SetManualApiKey(key) ==
    /\ NoContinuationQueued
    /\ ~hasApiKey
    /\ ~isAIStudioEnv
    /\ manualApiKey' = key
    /\ UNCHANGED <<serviceVars, ex, built, viewedImage, cam, appState, selectedBg, selectedLighting,
                   settings, gallery, errorMessage, hasApiKey, isAIStudioEnv,
                   keyChecked, timers, camera, started, nextId>>

\* handleManualKeySubmit, lines 67-72, behind the submit button of line 170
ManualKeySubmit ==
    /\ NoContinuationQueued
    /\ ~hasApiKey
    /\ ~isAIStudioEnv
    /\ ~(TextLen(manualApiKey) < KeyLimit)
    /\ IF TextLen(Trim(manualApiKey)) > KeyLimit
       THEN SetHasApiKey(TRUE)
       ELSE UNCHANGED <<hasApiKey, camera>>
    /\ UNCHANGED <<serviceVars, ex, built, viewedImage, cam, appState, selectedBg, selectedLighting,
                   settings, gallery, errorMessage, manualApiKey, isAIStudioEnv,
                   keyChecked, timers, started, nextId>>

\* a key switch that gives up the request in flight
SwitchKey_Abort ==
    /\ NoContinuationQueued
    /\ hasApiKey
    /\ ~isAIStudioEnv
    /\ SetHasApiKey(FALSE)
    /\ manualApiKey' = << >>
    /\ pc' = "idle"
    /\ args' = << >>
    /\ calls' = << >>
    /\ inflight' = {}
    /\ error' = << >>
    /\ proResponse' = << >>
    /\ flashResponse' = << >>
    /\ fallbackError' = << >>
    /\ proSettled' = ProPending
    /\ outcome' = Pending
    /\ started' = 0
    /\ UNCHANGED <<ex, built, viewedImage, cam, appState, selectedBg, selectedLighting,
                   settings, gallery, errorMessage, isAIStudioEnv, keyChecked, timers,
                   nextId>>

\* the header button in the standalone environment, lines 208-211
SwitchKey ==
    /\ NoContinuationQueued
    /\ hasApiKey
    /\ ~isAIStudioEnv
    /\ SetHasApiKey(FALSE)
    /\ manualApiKey' = << >>
    /\ UNCHANGED <<serviceVars, ex, built, viewedImage, cam, appState, selectedBg, selectedLighting,
                   settings, gallery, errorMessage, isAIStudioEnv, keyChecked, timers,
                   started, nextId>>

\* onloadedmetadata of the stream startCamera asked for, Camera.tsx lines
\* 107-111
CameraStarted ==
    /\ NoContinuationQueued
    /\ camera = "starting"
    /\ camera' = "streaming"
    /\ UNCHANGED <<serviceVars, ex, built, viewedImage, cam, appState, selectedBg, selectedLighting,
                   settings, gallery, errorMessage, hasApiKey, manualApiKey,
                   isAIStudioEnv, keyChecked, timers, started, nextId>>

\* startCamera ends in setError, Camera.tsx lines 70-73, 127-136, 159-161
CameraFailed ==
    /\ NoContinuationQueued
    /\ camera = "starting"
    /\ camera' = "error"
    /\ UNCHANGED <<serviceVars, ex, built, viewedImage, cam, appState, selectedBg, selectedLighting,
                   settings, gallery, errorMessage, hasApiKey, manualApiKey,
                   isAIStudioEnv, keyChecked, timers, started, nextId>>

\* the Retry Camera button of the error view, Camera.tsx line 217
RetryCamera ==
    /\ NoContinuationQueued
    /\ camera = "error"
    /\ camera' = "starting"
    /\ UNCHANGED <<serviceVars, ex, built, viewedImage, cam, appState, selectedBg, selectedLighting,
                   settings, gallery, errorMessage, hasApiKey, manualApiKey,
                   isAIStudioEnv, keyChecked, timers, started, nextId>>

\* a capture button that is disabled only while a request is processed
CaptureDisabled_ProcessingOnly == appState = "PROCESSING"

\* disabled of the capture button, App.tsx line 239
CaptureDisabled == appState = "PROCESSING" \/ appState = "CAPTURING"

\* triggerCapture, lines 123-128, behind the capture button of the main
\* screen; cameraRef.current is the handle of the mounted Camera
TriggerCapture ==
    /\ NoContinuationQueued
    /\ hasApiKey
    /\ ~CaptureDisabled
    /\ nextId <= MaxShots
    /\ timers < MaxTimers
    /\ IF camera # "unmounted"
       THEN /\ appState' = "CAPTURING"
            /\ timers' = timers + 1
       ELSE UNCHANGED <<appState, timers>>
    /\ UNCHANGED <<serviceVars, ex, built, viewedImage, cam, selectedBg, selectedLighting, settings,
                   gallery, errorMessage, hasApiKey, manualApiKey, isAIStudioEnv,
                   keyChecked, camera, started, nextId>>

\* the arguments handleCapture passes to generateStudioShot, lines 80-86
CaptureArgs(originalImageBase64) ==
    [imageBase64 |-> originalImageBase64,
     background |-> selectedBg,
     lighting |-> selectedLighting,
     settings |-> settings,
     apiKey |-> manualApiKey]

\* a handleCapture that leaves the error message of the last failure
HandleCapture_KeepError(originalImageBase64) ==
    /\ appState' = "PROCESSING"
    /\ UNCHANGED errorMessage
    /\ started' = started + 1
    /\ IF pc = "idle"
       THEN Invoke(CaptureArgs(originalImageBase64))
       ELSE UNCHANGED <<serviceVars, ex>>

\* handleCapture up to its await, lines 74-86.  The invocation of
\* generateStudioShot is followed in the service variables; a call made
\* while an earlier one has not settled is only counted in `started`.
HandleCapture(originalImageBase64) ==
    /\ appState' = "PROCESSING"
    /\ errorMessage' = << >>
    /\ started' = started + 1
    /\ IF pc = "idle"
       THEN Invoke(CaptureArgs(originalImageBase64))
       ELSE UNCHANGED <<serviceVars, ex>>

\* the 50 ms timer of triggerCapture fires: cameraRef.current?.capture(),
\* and capture (Camera.tsx lines 173-210) calls onCapture only when the
\* video element is there and the stream has started
TimerFire ==
    /\ NoContinuationQueued
    /\ timers > 0
    /\ timers' = timers - 1
    /\ IF camera = "streaming"
       THEN \E img \in CaptureImages : HandleCapture(img)
       ELSE UNCHANGED <<serviceVars, ex, appState, errorMessage, started>>
    /\ UNCHANGED <<built, viewedImage, cam, selectedBg, selectedLighting, settings, gallery, hasApiKey,
                   manualApiKey, isAIStudioEnv, keyChecked, camera, nextId>>

\* an entry made from what is selected when the generation has settled
NewImage_CurrentSelection ==
    [id |-> nextId,
     originalUrl |-> args[1].imageBase64,
     generatedUrl |-> outcome.value,
     settings |-> [backgroundName |-> selectedBg.name,
                   type |-> selectedBg.type,
                   value |-> selectedBg.value,
                   lightingName |-> selectedLighting.name,
                   lightingDirection |-> settings.lightingDirection]]

\* newImage of lines 88-101, from the values handleCapture closed over
NewImage ==
    [id |-> nextId,
     originalUrl |-> args[1].imageBase64,
     generatedUrl |-> outcome.value,
     settings |-> [backgroundName |-> args[1].background.name,
                   type |-> args[1].background.type,
                   value |-> args[1].background.value,
                   lightingName |-> args[1].lighting.name,
                   lightingDirection |-> args[1].settings.lightingDirection]]

\* the message shown for a failure, lines 109-117
ShownMessage(message) ==
    IF Includes(message, "Requested entity was not found")
    THEN Lit("API Key invalid or expired. Please check your key.")
    ELSE IF Includes(message, "API key not valid")
    THEN Lit("Invalid API Key provided.")
    ELSE IF message # << >> THEN message
    ELSE Lit("Failed to generate image.")

\* a test that knows the first phrase only
KeyRejected_NotFoundOnly(message) ==
    Includes(message, "Requested entity was not found")

\* the conditions of lines 109 and 112 under which setHasApiKey(false) runs
KeyRejected(message) ==
    Includes(message, "Requested entity was not found")
    \/ Includes(message, "API key not valid")

\* handleCapture after its await, lines 88-120: the invocation has settled
\* and its activation is gone
HandleCaptureResume ==
    /\ pc = "done"
    /\ started' = started - 1
    /\ pc' = "idle"
    /\ args' = << >>
    /\ calls' = << >>
    /\ inflight' = {}
    /\ error' = << >>
    /\ proResponse' = << >>
    /\ flashResponse' = << >>
    /\ fallbackError' = << >>
    /\ proSettled' = ProPending
    /\ outcome' = Pending
    /\ IF outcome.status = "fulfilled"
       THEN /\ gallery' = <<NewImage>> \o gallery
            /\ nextId' = nextId + 1
            /\ appState' = "SUCCESS"
            /\ UNCHANGED <<errorMessage, hasApiKey, camera>>
       ELSE /\ IF KeyRejected(outcome.value)
               THEN SetHasApiKey(FALSE)
               ELSE UNCHANGED <<hasApiKey, camera>>
            /\ errorMessage' = <<ShownMessage(outcome.value)>>
            /\ appState' = "ERROR"
            /\ UNCHANGED <<gallery, nextId>>
    /\ UNCHANGED <<ex, built, viewedImage, cam, selectedBg, selectedLighting, settings, manualApiKey,
                   isAIStudioEnv, keyChecked, timers>>

\* a generateContent promise of the running invocation settles
RemoteSettles ==
    \/ UNCHANGED <<built, cam, appVars>> /\ pc = "awaitPro"
          /\ \E r \in AppResponses : ProResolve(r)
    \/ UNCHANGED <<built, cam, appVars>> /\ pc = "awaitPro"
          /\ \E m \in AppErrorMessages : ProReject(m)
    \/ UNCHANGED <<built, cam, appVars>> /\ pc = "awaitFlash"
          /\ \E r \in AppResponses : FlashResolve(r)
    \/ UNCHANGED <<built, cam, appVars>> /\ pc = "awaitFlash"
          /\ \E m \in AppErrorMessages : FlashReject(m)

InitApp ==
    /\ ServiceIdle
    /\ ex = NotExtracting
    /\ built = NotBuilding
    /\ cam = NoCamera
    /\ \E aistudio \in BOOLEAN : AppMounted(aistudio)

NextApp ==
    \/ \E has \in BOOLEAN : CheckKeyResolve(has)
    \/ \E ok \in BOOLEAN : ConnectKey(ok)
    \/ \E key \in ManualKeys : SetManualApiKey(key)
    \/ ManualKeySubmit
    \/ SwitchKey
    \/ CameraStarted
    \/ CameraFailed
    \/ RetryCamera
    \/ TriggerCapture
    \/ TimerFire
    \/ RemoteSettles
    \/ HandleCaptureResume

SpecApp == InitApp /\ [][NextApp]_vars

\* every issued generateContent call settles, and the continuation of a
\* settled promise is run by the event loop
SpecAppFair ==
    SpecApp /\ WF_vars(RemoteSettles) /\ WF_vars(HandleCaptureResume)

\* and a timer that was set fires
SpecAppTimed == SpecAppFair /\ WF_vars(TimerFire)

----------------------------------------------------------------------------
(* The control panel, the gallery and the preview: src/App.tsx lines        *)
(* 264-330, ControlPanel of src/components/Camera.tsx, src/components/      *)
(* Gallery.tsx                                                              *)

\* disabled of ControlPanel, App.tsx line 273
PanelDisabled == appState = "PROCESSING"

\* what the user picks in the runs explored: the first preset again, one
\* colour, one file, and one other lighting, ratio and direction than those
\* App starts with
StudioPresets == {PRESET_BACKGROUNDS[1]}

StudioColours == {<<"#ff8800">>}

StudioUploads == {<<"data:image/png;base64,", "iVBORw0KGgoAAAANSUhEUg">>}

StudioLightings == {PRESET_LIGHTING[2]}

StudioRatios == {"16:9"}

StudioDirections == {"left"}

\* a preset button of the background tab, Camera.tsx lines 540-549: it has
\* no disabled attribute
SelectPreset(bg) ==
    /\ NoContinuationQueued
    /\ hasApiKey
    /\ selectedBg' = bg
    /\ UNCHANGED <<serviceVars, ex, built, cam, appState, selectedLighting, settings,
                   gallery, errorMessage, hasApiKey, manualApiKey, isAIStudioEnv,
                   keyChecked, timers, camera, started, nextId, viewedImage>>

\* the colour field and the hue slider, Camera.tsx lines 373-410 and
\* 553-596: a press on the field or a change of the slider, neither of which
\* the disabled panel accepts
PickColour(hex) ==
    /\ NoContinuationQueued
    /\ hasApiKey
    /\ ~PanelDisabled
    /\ selectedBg' = SolidBackground(hex)
    /\ UNCHANGED <<serviceVars, ex, built, cam, appState, selectedLighting, settings,
                   gallery, errorMessage, hasApiKey, manualApiKey, isAIStudioEnv,
                   keyChecked, timers, camera, started, nextId, viewedImage>>

\* handleFileUpload, Camera.tsx lines 433-450, with the upload button and
\* the file input of lines 531-539, which have no disabled attribute: a
\* file is chosen and the reader has loaded it
FileUploaded(base64) ==
    /\ NoContinuationQueued
    /\ hasApiKey
    /\ selectedBg' = UploadedBackground(base64)
    /\ UNCHANGED <<serviceVars, ex, built, cam, appState, selectedLighting, settings,
                   gallery, errorMessage, hasApiKey, manualApiKey, isAIStudioEnv,
                   keyChecked, timers, camera, started, nextId, viewedImage>>

\* a lighting button, Camera.tsx lines 505-520, disabled with the panel
SelectLighting(light) ==
    /\ NoContinuationQueued
    /\ hasApiKey
    /\ ~PanelDisabled
    /\ selectedLighting' = light
    /\ UNCHANGED <<serviceVars, ex, built, cam, appState, selectedBg, settings,
                   gallery, errorMessage, hasApiKey, manualApiKey, isAIStudioEnv,
                   keyChecked, timers, camera, started, nextId, viewedImage>>

\* handleUpdateSettings, App.tsx lines 130-132, behind the aspect-ratio
\* buttons (Camera.tsx lines 610-623) and the direction buttons (lines
\* 455-468), none of which has a disabled attribute
UpdateSettings(key, val) ==
    /\ NoContinuationQueued
    /\ hasApiKey
    /\ settings' = [settings EXCEPT ![key] = val]
    /\ UNCHANGED <<serviceVars, ex, built, cam, appState, selectedBg, selectedLighting,
                   gallery, errorMessage, hasApiKey, manualApiKey, isAIStudioEnv,
                   keyChecked, timers, camera, started, nextId, viewedImage>>

\* a filter that keeps no entry
WithoutId_Clear(images, id) == << >>

\* prev.filter(img => img.id !== id)
RECURSIVE WithoutId(_, _)
WithoutId(images, id) ==
    IF images = << >> THEN << >>
    ELSE IF Head(images).id # id
    THEN <<Head(images)>> \o WithoutId(Tail(images), id)
    ELSE WithoutId(Tail(images), id)

\* onRemove of the gallery, App.tsx line 281, behind the remove button of
\* an entry, Gallery.tsx lines 62-68
RemoveImage(id) ==
    /\ NoContinuationQueued
    /\ hasApiKey
    /\ \E i \in DOMAIN gallery : gallery[i].id = id
    /\ gallery' = WithoutId(gallery, id)
    /\ UNCHANGED <<serviceVars, ex, built, cam, appState, selectedBg, selectedLighting,
                   settings, errorMessage, hasApiKey, manualApiKey, isAIStudioEnv,
                   keyChecked, timers, camera, started, nextId, viewedImage>>

\* onView of the gallery, App.tsx line 282, behind an entry, Gallery.tsx
\* line 45
ViewImage(i) ==
    /\ NoContinuationQueued
    /\ hasApiKey
    /\ i \in DOMAIN gallery
    /\ viewedImage' = <<gallery[i]>>
    /\ UNCHANGED <<serviceVars, ex, built, cam, appState, selectedBg, selectedLighting,
                   settings, gallery, errorMessage, hasApiKey, manualApiKey,
                   isAIStudioEnv, keyChecked, timers, camera, started, nextId>>

\* the close button of the preview, App.tsx lines 289-296
CloseView ==
    /\ NoContinuationQueued
    /\ hasApiKey
    /\ viewedImage # << >>
    /\ viewedImage' = << >>
    /\ UNCHANGED <<serviceVars, ex, built, cam, appState, selectedBg, selectedLighting,
                   settings, gallery, errorMessage, hasApiKey, manualApiKey,
                   isAIStudioEnv, keyChecked, timers, camera, started, nextId>>

\* App mounted where window.aistudio exists
InitStudio ==
    /\ ServiceIdle
    /\ ex = NotExtracting
    /\ built = NotBuilding
    /\ cam = NoCamera
    /\ AppMounted(TRUE)

\* the steps of App that can be taken where window.aistudio exists
NextInAIStudio ==
    \/ \E has \in BOOLEAN : CheckKeyResolve(has)
    \/ \E ok \in BOOLEAN : ConnectKey(ok)
    \/ CameraStarted
    \/ CameraFailed
    \/ RetryCamera
    \/ TriggerCapture
    \/ TimerFire
    \/ RemoteSettles
    \/ HandleCaptureResume

\* App with its control panel
NextStudio ==
    \/ NextInAIStudio
    \/ \E bg \in StudioPresets : SelectPreset(bg)
    \/ \E hex \in StudioColours : PickColour(hex)
    \/ \E base64 \in StudioUploads : FileUploaded(base64)
    \/ \E light \in StudioLightings : SelectLighting(light)
    \/ \E ratio \in StudioRatios : UpdateSettings("aspectRatio", ratio)
    \/ \E dir \in StudioDirections : UpdateSettings("lightingDirection", dir)

SpecStudio == InitStudio /\ [][NextStudio]_vars

\* App with its gallery, its preview and the background tab
NextGallery ==
    \/ NextInAIStudio
    \/ \E bg \in StudioPresets : SelectPreset(bg)
    \/ \E hex \in StudioColours : PickColour(hex)
    \/ \E base64 \in StudioUploads : FileUploaded(base64)
    \/ \E id \in 1..MaxShots : RemoveImage(id)
    \/ \E i \in 1..MaxShots : ViewImage(i)
    \/ CloseView

SpecGallery == InitStudio /\ [][NextGallery]_vars

----------------------------------------------------------------------------
(* Camera of src/components/Camera.tsx, lines 15-166, on its own: cam holds  *)
(* the instance mounted, the srcObject of its video element, its state, the  *)
(* pending promises of getUserMedia and the streams whose tracks are live    *)

\* videoRef.current of the instance a request was made by: the video element
\* is rendered while that instance is mounted and shows no error (line 212)
VideoRef(c, instance) == c.mounted /\ c.instance = instance /\ ~c.error

\* stopStream, lines 29-36, where ref tells whether videoRef.current is set
stopStream(c, ref) ==
    IF ref /\ c.srcObject # << >>
    THEN [c EXCEPT !.live = @ \ {c.srcObject[1]}, !.srcObject = << >>,
                   !.loading = FALSE, !.streamStarted = FALSE]
    ELSE [c EXCEPT !.streamStarted = FALSE]

\* the promise of a call of getUserMedia, with the instance and the function
\* that await it
Request(c, instance, kind) ==
    [id |-> c.requested + 1, instance |-> instance, kind |-> kind]

\* startCamera up to its await, lines 64-92
startCamera(c) ==
    LET stopped == stopStream(c, VideoRef(c, c.instance))
    IN  IF ~c.supported
        THEN [stopped EXCEPT !.error = TRUE]
        ELSE [stopped EXCEPT !.error = FALSE,
                             !.pending = @ \cup {Request(c, c.instance, "startCamera")},
                             !.requested = @ + 1]

\* startCameraFallback up to its await, lines 139-145
startCameraFallback(c, instance) ==
    [c EXCEPT !.pending = @ \cup {Request(c, instance, "startCameraFallback")},
              !.requested = @ + 1]

\* setError of an instance: a state update of an unmounted instance is lost
setError(c, instance, value) ==
    IF c.mounted /\ c.instance = instance THEN [c EXCEPT !.error = value] ELSE c

\* Camera is mounted and its effect of lines 163-166 calls startCamera
MountCamera ==
    /\ ~cam.mounted
    /\ cam.instance < MaxStreams
    /\ cam.requested < MaxStreams
    /\ cam' = startCamera([cam EXCEPT !.mounted = TRUE, !.instance = @ + 1])
    /\ UNCHANGED <<serviceVars, ex, built, appVars>>

\* Camera is unmounted and the cleanup of line 165 calls stopStream; whether
\* videoRef.current is still set when an effect cleanup runs depends on the
\* version of React: detached tells that it was reset before
UnmountCamera(detached) ==
    /\ cam.mounted
    /\ cam' = [stopStream(cam, VideoRef(cam, cam.instance) /\ ~detached)
                  EXCEPT !.mounted = FALSE, !.srcObject = << >>, !.loading = FALSE,
                         !.streamStarted = FALSE, !.error = FALSE]
    /\ UNCHANGED <<serviceVars, ex, built, appVars>>

\* onChange of the device selector, line 276, shown while streamStarted
SwitchDevice ==
    /\ cam.mounted
    /\ ~cam.error
    /\ cam.streamStarted
    /\ cam.requested < MaxStreams
    /\ cam' = startCamera(cam)
    /\ UNCHANGED <<serviceVars, ex, built, appVars>>

\* the Retry Camera button of the error view, line 217
RetryStartCamera ==
    /\ cam.mounted
    /\ cam.error
    /\ ~cam.supported \/ cam.requested < MaxStreams
    /\ cam' = startCamera(cam)
    /\ UNCHANGED <<serviceVars, ex, built, appVars>>

\* a promise of getUserMedia resolves with a stream, whose tracks are live,
\* and the function awaiting it goes on: lines 93-124 and 146-157
GetUserMediaResolve(request) ==
    /\ request \in cam.pending
    /\ LET acquired == [cam EXCEPT !.pending = @ \ {request},
                                   !.live = @ \cup {request.id}]
       IN  cam' =
             IF request.kind = "startCamera"
             THEN IF VideoRef(cam, request.instance)
                  THEN [acquired EXCEPT !.srcObject = <<request.id>>,
                                        !.loading = TRUE]
                  ELSE acquired
             ELSE setError(
                    IF VideoRef(cam, request.instance)
                    THEN [acquired EXCEPT !.srcObject = <<request.id>>,
                                          !.streamStarted = TRUE]
                    ELSE acquired,
                    request.instance, FALSE)
    /\ UNCHANGED <<serviceVars, ex, built, appVars>>

\* the names getUserMedia rejects with
RejectionNames == {"NotAllowedError", "OverconstrainedError", "NotFoundError"}

\* a promise of getUserMedia rejects: the catch blocks of lines 126-136 and
\* 158-160
GetUserMediaReject(request, name) ==
    /\ request \in cam.pending
    /\ LET rejected == [cam EXCEPT !.pending = @ \ {request}]
       IN  IF request.kind = "startCamera" /\ name = "OverconstrainedError"
           THEN /\ cam.requested < MaxStreams
                /\ cam' = startCameraFallback(rejected, request.instance)
           ELSE cam' = setError(rejected, request.instance, TRUE)
    /\ UNCHANGED <<serviceVars, ex, built, appVars>>

\* onloadedmetadata of the video element, lines 105-120
LoadedMetadata ==
    /\ cam.mounted
    /\ cam.loading
    /\ cam' = [cam EXCEPT !.loading = FALSE, !.streamStarted = TRUE]
    /\ UNCHANGED <<serviceVars, ex, built, appVars>>

InitCamera ==
    /\ ServiceIdle
    /\ ex = NotExtracting
    /\ built = NotBuilding
    /\ AppMounted(FALSE)
    /\ \E supported \in BOOLEAN : cam = [NoCamera EXCEPT !.supported = supported]

NextCamera ==
    \/ MountCamera
    \/ \E detached \in BOOLEAN : UnmountCamera(detached)
    \/ SwitchDevice
    \/ RetryStartCamera
    \/ \E request \in cam.pending : GetUserMediaResolve(request)
    \/ \E request \in cam.pending, name \in RejectionNames :
          GetUserMediaReject(request, name)
    \/ LoadedMetadata

SpecCamera == InitCamera /\ [][NextCamera]_vars

----------------------------------------------------------------------------
(* Properties of generateStudioShot *)

PRO == "gemini-3-pro-image-preview"

FLASH == "gemini-2.5-flash-image"

\* the requests of the invocation sent to the model m
CallsTo(m) == {i \in 1..Len(calls) : calls[i].model = m}

\* the text instruction of a request: the text of its last part
PromptOf(request) == request.parts[Len(request.parts)].data

\* C1, as stated: whenever the Pro call resolved with a response holding an
\* inline part anywhere, the invocation is fulfilled with an inline payload
\* of that response as a data URI and the Flash model is never called.
C1_AsStated ==
    (proSettled.how = "resolved" /\ proSettled.inline) =>
        /\ pc = "done"
        /\ outcome.status = "fulfilled"
        /\ CallsTo(FLASH) = {}

\* C1, amended: whenever the Pro call resolved with a response whose first
\* candidate holds a part with a non-empty inline payload, the invocation is
\* fulfilled with the first such payload as a data URI, and the Flash model
\* is never called.
C1_PrimaryImageReturned ==
    (proSettled.how = "resolved" /\ proSettled.payload) =>
        /\ pc = "done"
        /\ proResponse # << >>
        /\ outcome = Fulfilled(FirstPayloadUri(FirstCandidateParts(proResponse[1])))
        /\ CallsTo(FLASH) = {}
        /\ Len(calls) = 1

\* the Pro response holds text before its image, and a second candidate
C1_Witness ==
    /\ pc = "done"
    /\ proSettled.how = "resolved" /\ proSettled.payload
    /\ Len(proResponse[1].list) = 2
    /\ FirstCandidateParts(proResponse[1])[1].kind = "text"
    /\ outcome.status = "fulfilled"

\* C2: when the Pro call threw, the Flash model is called exactly once, with
\* the simplified prompt and no config, and the Pro call carried the config
\* with image size 4K and the aspect ratio of the settings.
C2_FallbackAfterThrow ==
    proSettled.how = "rejected" =>
        /\ Cardinality(CallsTo(FLASH)) = 1
        /\ Len(calls) = 2
        /\ calls[1].model = PRO
        /\ calls[1].config = <<[imageSize |-> "4K",
                                aspectRatio |-> args[1].settings.aspectRatio]>>
        /\ calls[2].model = FLASH
        /\ calls[2].config = << >>
        /\ PromptOf(calls[2]) # PromptOf(calls[1])
        /\ PromptOf(calls[2]) =
             IF HasBackgroundImage(args[1].background)
             THEN <<"Composite product from image 1 into image 2. Keep product exact. High quality.">>
             ELSE <<"Product photography. Keep the product exactly as it looks in the original image. Do not change the product. Only change the background to: ">>
                  \o bgDescription(args[1].background)
                  \o <<". Lighting: ">> \o args[1].lighting.value
                  \o <<". High quality 4K.">>

\* the Pro call threw for a 16:9 shot and the Flash call is pending
C2_Witness ==
    /\ proSettled.how = "rejected"
    /\ pc = "awaitFlash"
    /\ args[1].settings.aspectRatio = "16:9"
    /\ Len(calls) = 2

\* C3: the Flash call is issued only after the Pro call has settled, and
\* only when it threw or resolved without an image; the two calls are never
\* pending together.
C3_Sequential ==
    /\ Cardinality(inflight) <= 1
    /\ (pc = "awaitPro") = ("pro" \in inflight)
    /\ (pc = "awaitFlash") = ("flash" \in inflight)
    /\ CallsTo(FLASH) # {} =>
          /\ CallsTo(PRO) = {1}
          /\ CallsTo(FLASH) = {2}
          /\ "pro" \notin inflight
          /\ \/ proSettled.how = "rejected"
             \/ proSettled.how = "resolved" /\ ~proSettled.payload

\* the Flash call is pending after a Pro response without an image
C3_Witness ==
    /\ "flash" \in inflight
    /\ proSettled.how = "resolved"
    /\ ~proSettled.payload

\* C4: the invocation returns the Pro image when the Pro response yields
\* one; otherwise, the Flash image when the Flash response yields one;
\* otherwise it rejects, and it rejects only after both attempts were made.
C4_FailsIffBothFail ==
    /\ pc # "done" => outcome = Pending
    /\ pc = "done" =>
         IF proSettled.how = "resolved" /\ proSettled.payload
         THEN outcome = Fulfilled(FirstPayloadUri(FirstCandidateParts(proResponse[1])))
         ELSE /\ Len(calls) = 2
              /\ IF flashResponse # << >> /\ FirstCandidateHasPayload(flashResponse[1])
                 THEN outcome =
                        Fulfilled(FirstPayloadUri(FirstCandidateParts(flashResponse[1])))
                 ELSE outcome.status = "rejected"

\* the Pro response had no image and the Flash image is returned
C4_Witness ==
    /\ pc = "done"
    /\ proSettled.how = "resolved"
    /\ ~proSettled.payload
    /\ flashResponse # << >>
    /\ outcome.status = "fulfilled"

\* C5: when both attempts fail the surfaced message is the fallback error's
\* message if non-empty (the thrown one, or the refusal / no-image message),
\* else the primary error's message (the Pro no-image message when the Pro
\* call resolved), else the generic message.
C5_SurfacedMessage ==
    (pc = "done" /\ outcome.status = "rejected") =>
        /\ error # << >> /\ fallbackError # << >>
        /\ proSettled.how = "resolved" =>
             error[1] = <<Run("Pro model returned no image.", 1)>>
        /\ flashResponse # << >> =>
             \/ fallbackError[1] = <<Run("No image generated by fallback model.", 1)>>
             \/ Head(fallbackError[1]) = Run("AI Refusal: ", 1)
        /\ outcome.value =
             IF fallbackError[1] # << >> THEN fallbackError[1]
             ELSE IF error[1] # << >> THEN error[1]
             ELSE <<Run("Failed to generate image.", 1)>>

\* the Flash call threw an error without a message after the Pro call
\* resolved without an image
C5_Witness ==
    /\ pc = "done"
    /\ proSettled.how = "resolved"
    /\ fallbackError = << << >> >>
    /\ outcome = Rejected(<<Run("Pro model returned no image.", 1)>>)

\* the texts of the parts ps that start with "Sorry"
SorryTextsOf(ps) ==
    {ps[j].data : j \in {k \in 1..Len(ps) : ps[k].kind = "text" /\ ps[k].data # << >>
                                             /\ IsPrefix(Sorry, ps[k].data)}}

\* m is "AI Refusal: " followed by at most 100 characters, a prefix of t
IsRefusalOf(m, t) ==
    /\ m # << >>
    /\ Head(m) = Run("AI Refusal: ", 1)
    /\ TextLen(Tail(m)) <= 100
    /\ IsPrefix(Tail(m), t)

\* C6, as stated: when the Flash response has no inline part but a text part
\* starting with "Sorry", at any place, the invocation fails with
\* "AI Refusal:" followed by at most 100 characters of that text.
C6_AsStated ==
    (/\ pc = "done"
     /\ flashResponse # << >>
     /\ ~ContainsInlinePart(flashResponse[1])
     /\ SorryTextsOf(AllParts(flashResponse[1].list)) # {}) =>
        /\ outcome.status = "rejected"
        /\ \E t \in SorryTextsOf(AllParts(flashResponse[1].list)) :
              IsRefusalOf(outcome.value, t)

\* C6, amended: when the Flash response has no inline part and the first
\* part of its first candidate is a text starting with "Sorry", the
\* invocation fails with "AI Refusal: " followed by the first 100 characters
\* of that text, the whole text when it is shorter.
C6_RefusalOfFirstPart ==
    (/\ pc = "done"
     /\ flashResponse # << >>
     /\ ~ContainsInlinePart(flashResponse[1])
     /\ FirstCandidateParts(flashResponse[1]) # << >>
     /\ SorryTextsOf(<<FirstCandidateParts(flashResponse[1])[1]>>) # {}) =>
        LET t == FirstCandidateParts(flashResponse[1])[1].data IN
        /\ outcome.status = "rejected"
        /\ IsRefusalOf(outcome.value, t)
        /\ TextLen(Tail(outcome.value)) = Min(100, TextLen(t))

\* a refusal longer than 100 characters was cut
C6_Witness ==
    /\ pc = "done"
    /\ flashResponse # << >>
    /\ FirstCandidateParts(flashResponse[1]) # << >>
    /\ FirstCandidateParts(flashResponse[1])[1].kind = "text"
    /\ TextLen(FirstCandidateParts(flashResponse[1])[1].data) > 100
    /\ outcome.status = "rejected"
    /\ Head(outcome.value) = Run("AI Refusal: ", 1)
    /\ TextLen(Tail(outcome.value)) = 100

\* the response holds no part with a non-empty text
HasNoText(response) ==
    \A j \in 1..Len(AllParts(response.list)) :
        AllParts(response.list)[j].kind = "text" => AllParts(response.list)[j].data = << >>

\* C7: when the Flash response holds neither an inline part nor any text,
\* the invocation fails with the no-image message of the fallback.
C7_NoImageMessage ==
    (/\ pc = "done"
     /\ flashResponse # << >>
     /\ ~ContainsInlinePart(flashResponse[1])
     /\ HasNoText(flashResponse[1])) =>
        outcome = Rejected(<<Run("No image generated by fallback model.", 1)>>)

\* the Pro call threw with a message and the Flash response is empty
C7_Witness ==
    /\ pc = "done"
    /\ proSettled.how = "rejected"
    /\ error # << << >> >>
    /\ flashResponse # << >>
    /\ ~ContainsInlinePart(flashResponse[1])
    /\ HasNoText(flashResponse[1])
    /\ outcome.status = "rejected"

----------------------------------------------------------------------------
(* Properties of extractImage, under SpecExtract *)

\* the parts of response.candidates[0].content.parts the extraction is
\* applied to
ExtractedParts == FirstCandidateParts(ex.response[1])

\* C8, as stated: for every payload X of an inline part of the content of
\* the response, the extraction returns "data:image/png;base64," followed
\* by X.
C8_AsStated ==
    ex.applied =>
        \A j \in InlineAt(ExtractedParts) :
            ex.result = << <<"data:image/png;base64,">> \o ExtractedParts[j].data >>

\* C8, amended: for every non-empty payload X of the first inline part with
\* a non-empty payload in the parts of the first candidate, the extraction
\* returns "data:image/png;base64," followed by X.
C8_RoundTrip ==
    ex.applied =>
        \A j \in PayloadAt(ExtractedParts) :
            (\A k \in PayloadAt(ExtractedParts) : j <= k) =>
                ex.result = << <<"data:image/png;base64,">> \o ExtractedParts[j].data >>

\* the payload is returned from behind a text part
C8_Witness ==
    /\ ex.applied
    /\ Len(ExtractedParts) = 2
    /\ ExtractedParts[1].kind = "text"
    /\ ExtractedParts[2].kind = "inlineData"
    /\ ex.result = << <<"data:image/png;base64,">> \o ExtractedParts[2].data >>

\* the non-empty inline payloads of all candidates, in part order
PayloadsOf(response) ==
    SelectSeq(AllParts(response.list), LAMBDA part : part.kind = "inlineData" /\ part.data # << >>)

\* C9, as stated: for every envelope the extraction returns the first inline
\* payload of the response in part order as a data URI, and null exactly
\* when no content part of the response carries an inline payload.
C9_AsStated ==
    ex.applied =>
        IF PayloadsOf(ex.response[1]) = << >>
        THEN ex.result = << >>
        ELSE ex.result = << <<"data:image/png;base64,">> \o PayloadsOf(ex.response[1])[1].data >>

\* C9, amended: for every envelope the extraction returns the first
\* non-empty inline payload among the parts of the first candidate as a
\* data URI, and null exactly when no part of the first candidate carries a
\* non-empty inline payload.
C9_FirstPayloadOrNull ==
    ex.applied =>
        IF PayloadAt(ExtractedParts) = {}
        THEN ex.result = << >>
        ELSE ex.result = <<FirstPayloadUri(ExtractedParts)>>

\* the first of two different payloads is returned
C9_Witness ==
    /\ ex.applied
    /\ Cardinality(PayloadAt(ExtractedParts)) = 2
    /\ ExtractedParts[1].data # ExtractedParts[2].data
    /\ ex.result = << <<"data:image/png;base64,">> \o ExtractedParts[1].data >>

----------------------------------------------------------------------------
(* Properties of the requests *)

\* the inline parts of a request, in order
BinaryEntries(request) == SelectSeq(request.parts, LAMBDA part : part.kind = "inlineData")

\* the last part of the request is its only text part
TextIsLast(request) ==
    /\ request.parts[Len(request.parts)].kind = "text"
    /\ Len(BinaryEntries(request)) = Len(request.parts) - 1

ProductEntry == InlinePart(Tail(args[1].imageBase64))

BackgroundEntry == InlinePart(Tail(args[1].background.imageSrc))

\* C10, as stated: every request has two binary entries, the product image
\* then the background image, when background.type is 'image', and one,
\* the product image, otherwise; the text instruction is the last part.
C10_AsStated ==
    \A i \in 1..Len(calls) :
        /\ TextIsLast(calls[i])
        /\ Len(BinaryEntries(calls[i])) = IF args[1].background.type = "image" THEN 2 ELSE 1
        /\ BinaryEntries(calls[i])[1] = ProductEntry

\* C10, amended: every request has two binary entries, the product image
\* then the background image, when background.type is 'image' and
\* background.imageSrc is a non-empty string, and one, the product image,
\* otherwise; the text instruction is the last part.
C10_Attachments ==
    \A i \in 1..Len(calls) :
        /\ TextIsLast(calls[i])
        /\ BinaryEntries(calls[i]) =
             IF args[1].background.type = "image" /\ args[1].background.imageSrc # << >>
             THEN <<ProductEntry, BackgroundEntry>>
             ELSE <<ProductEntry>>

\* both requests of an invocation with an uploaded background were sent
C10_Witness ==
    /\ Len(calls) = 2
    /\ args[1].background.type = "image"
    /\ Len(BinaryEntries(calls[1])) = 2
    /\ Len(BinaryEntries(calls[2])) = 2

----------------------------------------------------------------------------
(* Claims about the settling of one invocation *)

\* a data URI made of the header and one payload
IsSingleImage(value) ==
    /\ Len(value) = 2
    /\ value[1] = "data:image/png;base64,"
    /\ <<value[2]>> \in Payloads \ {<< >>}

\* C15: an invocation settles exactly once: it is settled exactly when it
\* has ended, a fulfilled one carries a single image, a rejected one a
\* single non-empty message, the outcome changes only from pending to
\* settled, and no step follows the settling.
C15_SettlesOnce ==
    /\ [](pc = "done" <=> outcome.status # "pending")
    /\ [](outcome.status = "fulfilled" => IsSingleImage(outcome.value))
    /\ [](outcome.status = "rejected" => TextLen(outcome.value) > 0)
    /\ [][outcome' # outcome => (outcome = Pending /\ pc' = "done")]_vars
    /\ [][pc # "done"]_vars

\* an invocation rejected with the message of a rejected Flash call
C15_Witness ==
    /\ pc = "done"
    /\ outcome.status = "rejected"
    /\ fallbackError = <<Lit("Permission denied")>>
    /\ outcome.value = Lit("Permission denied")

\* C16: no retry beyond the single fallback: an invocation has called the
\* Pro model exactly once and the Flash model at most once, two
\* generateContent calls at most.
C16_NoRetry ==
    pc # "idle" =>
        /\ Cardinality(CallsTo(PRO)) = 1
        /\ Cardinality(CallsTo(FLASH)) <= 1
        /\ Len(calls) <= 2
        /\ \A i \in 1..Len(calls) : calls[i].model \in {PRO, FLASH}

\* both calls failed, the Flash call by rejection, and the invocation ended
\* with two calls
C16_Witness ==
    /\ pc = "done"
    /\ proSettled.how = "rejected"
    /\ fallbackError # << >>
    /\ flashResponse = << >>
    /\ Len(calls) = 2

----------------------------------------------------------------------------
(* Claims about the requests built for every set of arguments *)

BuiltArgs == built.args[1]

BuiltPro == built.requests[1]

BuiltFlash == built.requests[2]

\* the opening sentences of the two-image composition templates
CompositeOpenings ==
    {"You are an expert high-end commercial retoucher. ",
     "Composite product from image 1 into image 2. Keep product exact. High quality."}

\* the opening sentences of the text-described-scene templates
SceneOpenings ==
    {"You are a professional commercial product photographer and high-end retoucher. ",
     "Product photography. Keep the product exactly as it looks in the original image. Do not change the product. Only change the background to: "}

IsCompositeTemplate(prompt) == Head(prompt) \in CompositeOpenings

IsSceneTemplate(prompt) == Head(prompt) \in SceneOpenings

TemplateMatchesAttachments(request) ==
    /\ IsCompositeTemplate(PromptOf(request)) <=> Len(BinaryEntries(request)) = 2
    /\ IsSceneTemplate(PromptOf(request)) <=> Len(BinaryEntries(request)) = 1

\* C11: in the Pro and in the Flash request the two-image composition
\* template is the instruction text exactly when the request carries a
\* second binary attachment, the text-described-scene template exactly when
\* it carries one, and both requests take the same branch.
C11_TemplateMatchesAttachments ==
    built.requests # << >> =>
        /\ TemplateMatchesAttachments(BuiltPro)
        /\ TemplateMatchesAttachments(BuiltFlash)
        /\ Len(BinaryEntries(BuiltPro)) = Len(BinaryEntries(BuiltFlash))
        /\ IsCompositeTemplate(PromptOf(BuiltPro)) <=> IsCompositeTemplate(PromptOf(BuiltFlash))

\* both requests built for an uploaded background: two attachments each,
\* under the composition templates
C11_Witness ==
    /\ built.requests # << >>
    /\ BuiltArgs.background.id = "custom-upload"
    /\ Len(BinaryEntries(BuiltPro)) = 2
    /\ Len(BinaryEntries(BuiltFlash)) = 2
    /\ IsCompositeTemplate(PromptOf(BuiltPro))
    /\ IsCompositeTemplate(PromptOf(BuiltFlash))

\* the phrase occurs in the text
Contains(text, phrase) ==
    \E i \in 1..(Len(text) - Len(phrase) + 1) :
        SubSeq(text, i, i + Len(phrase) - 1) = phrase

DefaultPhrase == <<"professional studio lighting">>

\* the phrase the text has to carry for a direction: the mapped phrase inside
\* the enumerated set, the generic default phrase outside
ExpectedPhrase(dir) ==
    IF dir \in LightingDirections THEN directionMap(dir) ELSE DefaultPhrase

\* C12: for every direction of the enumerated set the instruction text of
\* the Pro request (scene or composition template) contains the phrase
\* mapped to the direction, and for every value outside the set it contains
\* the generic default phrase 'professional studio lighting'.
C12_AsStated ==
    built.requests # << >> =>
        Contains(PromptOf(BuiltPro), ExpectedPhrase(BuiltArgs.settings.lightingDirection))

\* C13: the instruction text of the Flash request contains the phrase of
\* the selected direction, or the generic default phrase for a value
\* outside the enumerated set, in its scene and in its composition form.
C13_AsStated ==
    built.requests # << >> =>
        Contains(PromptOf(BuiltFlash), ExpectedPhrase(BuiltArgs.settings.lightingDirection))

\* C14: for every solid background and every colour value the instruction
\* texts of the Pro request and of the Flash request both contain the colour
\* value as it was given.
C14_ColourVerbatim ==
    (built.requests # << >> /\ BuiltArgs.background.type = "solid") =>
        /\ Contains(PromptOf(BuiltPro), BuiltArgs.background.value)
        /\ Contains(PromptOf(BuiltFlash), BuiltArgs.background.value)

\* both requests built for a picked colour that is not the first of Colours
C14_Witness ==
    /\ built.requests # << >>
    /\ BuiltArgs.background.type = "solid"
    /\ BuiltArgs.background.value = <<"rgb(12, 34, 56)">>
    /\ Contains(PromptOf(BuiltFlash), <<"rgb(12, 34, 56)">>)

\* the headers canvas.toDataURL and FileReader.readAsDataURL put before the
\* payload of the images of BuildInvocations
DataUriHeaders == StrippedHeaders \cup {"data:image/gif;base64,"}

\* the payload holds no data-URI header
IsBarePayload(data) == \A i \in DOMAIN data : data[i] \notin DataUriHeaders

\* C25: every binary attachment of both requests is a bare payload without
\* a data-URI header, and the two requests carry the same attachments
C25_AsStated ==
    built.requests # << >> =>
        /\ \A request \in {BuiltPro, BuiltFlash} :
              \A i \in DOMAIN BinaryEntries(request) :
                 IsBarePayload(BinaryEntries(request)[i].data)
        /\ BinaryEntries(BuiltPro) = BinaryEntries(BuiltFlash)

----------------------------------------------------------------------------
(* Claims about App *)

Awaiting == pc \in {"awaitPro", "awaitFlash"}

\* C17: at most one generation request is in flight: a pending capture
\* timer or an unsettled invocation of generateStudioShot keeps the capture
\* button disabled (CAPTURING, then PROCESSING), never two invocations are
\* unsettled at once, and the unsettled one is the one the service
\* variables follow.
C17_OneRequestInFlight ==
    /\ started <= 1
    /\ started = (IF pc = "idle" THEN 0 ELSE 1)
    /\ started = 1 => appState = "PROCESSING"
    /\ timers > 0 => (appState = "CAPTURING" /\ started = 0 /\ timers = 1)
    /\ (started > 0 \/ timers > 0) => CaptureDisabled

\* the Flash call of a request is pending while a key switch has replaced
\* the main screen by the key screen
C17_Witness ==
    /\ started = 1
    /\ pc = "awaitFlash"
    /\ ~hasApiKey
    /\ manualApiKey = << >>
    /\ appState = "PROCESSING"

\* C18: a request that was issued runs to completion or failure: with
\* every remote call settling, the invocation settles and the app leaves
\* PROCESSING, for SUCCESS or ERROR and for nothing else, and no step takes
\* a pending invocation away.
C18_RunsToCompletion ==
    /\ (appState = "PROCESSING") ~> (appState \in {"SUCCESS", "ERROR"})
    /\ Awaiting ~> (pc = "done")
    /\ [][(appState = "PROCESSING" /\ appState' # "PROCESSING")
            => appState' \in {"SUCCESS", "ERROR"}]_vars
    /\ [][(pc = "awaitPro" => pc' \in {"awaitPro", "awaitFlash", "done"})
          /\ (pc = "awaitFlash" => pc' \in {"awaitFlash", "done"})
          /\ (Awaiting => started' = started)]_vars

\* an invocation has settled with an image after a key switch took the
\* main screen away, and handleCapture is about to go on
C18_Witness ==
    /\ pc = "done"
    /\ outcome.status = "fulfilled"
    /\ appState = "PROCESSING"
    /\ ~hasApiKey

\* C19: both requests of an invocation carry the key the caller supplied
\* when it is not empty, and process.env.API_KEY otherwise; the key App
\* supplies is the text of the key input, empty for none.
C19_Credential ==
    /\ [](\A i \in 1..Len(calls) :
             calls[i].apiKey = IF args[1].apiKey # << >> THEN args[1].apiKey ELSE API_KEY)
    /\ [][(pc = "idle" /\ pc' = "awaitPro") => args'[1].apiKey = manualApiKey]_vars

\* both requests were issued with the key entered on the key screen
C19_Witness ==
    /\ Len(calls) = 2
    /\ manualApiKey # << >>
    /\ args[1].apiKey = manualApiKey
    /\ calls[1].apiKey = manualApiKey
    /\ calls[2].apiKey = manualApiKey

\* C20: a failure is scoped to its request: a rejected invocation leaves
\* the app in ERROR with an error message, in ERROR the message is set and
\* the capture button is not disabled, and in SUCCESS the message is null.
C20_ErrorScoped ==
    /\ [](appState = "ERROR" =>
            (errorMessage # << >> /\ TextLen(errorMessage[1]) > 0 /\ ~CaptureDisabled))
    /\ [](appState = "SUCCESS" => errorMessage = << >>)
    /\ [][(pc = "done" /\ outcome.status = "rejected")
            => (appState' = "ERROR" /\ errorMessage' # << >> /\ started' = 0)]_vars

\* a new capture was triggered after a failure, whose message is still shown
C20_Witness ==
    /\ appState = "CAPTURING"
    /\ timers = 1
    /\ errorMessage # << >>
    /\ hasApiKey

\* the phrases of a failure message that handleCapture reads as a bad key
KeyPhrases == {"Requested entity was not found", "API key not valid"}

\* the messages shown for a bad key
KeyMessages ==
    {Lit("API Key invalid or expired. Please check your key."),
     Lit("Invalid API Key provided.")}

\* C26: when handleCapture resumes from a failed generation, the app ends
\* in ERROR; if the failure message contains one of the two key phrases,
\* hasApiKey becomes false and a key-specific message is shown; otherwise
\* hasApiKey is unchanged and the message of the service is shown, or the
\* generic one when that is empty
C26_KeyErrors ==
    [][(pc = "done" /\ outcome.status = "rejected") =>
          /\ appState' = "ERROR"
          /\ IF \E phrase \in KeyPhrases : Includes(outcome.value, phrase)
             THEN /\ hasApiKey' = FALSE
                  /\ errorMessage' # << >>
                  /\ errorMessage'[1] \in KeyMessages
             ELSE /\ hasApiKey' = hasApiKey
                  /\ errorMessage' =
                        IF outcome.value # << >> THEN <<outcome.value>>
                        ELSE <<Lit("Failed to generate image.")>>
      ]_vars

\* a failure that named an invalid key has put the key screen back, with
\* its message
C26_Witness ==
    /\ appState = "ERROR"
    /\ ~hasApiKey
    /\ camera = "unmounted"
    /\ errorMessage = <<Lit("Invalid API Key provided.")>>

----------------------------------------------------------------------------
(* Claims about the gallery *)

\* handleCapture is about to resume after a generation that succeeded
SuccessSettled == pc = "done" /\ outcome.status = "fulfilled"

\* handleCapture is about to resume after a generation that failed
FailureSettled == pc = "done" /\ outcome.status = "rejected"

\* after is before with exactly the entry at position k taken out
DeletedAt(before, after, k) ==
    after = SubSeq(before, 1, k - 1) \o SubSeq(before, k + 1, Len(before))

----------------------------------------------------------------------------
(* Claims about the capture button *)

\* C23: whenever the app is in CAPTURING it eventually is in PROCESSING
C23_AsStated == (appState = "CAPTURING") ~> (appState = "PROCESSING")

----------------------------------------------------------------------------
(* Claims about the control panel *)

\* C22: the entry a successful generation adds to the gallery records the
\* name, type and value of the background, the name of the lighting and the
\* light direction that were passed to generateStudioShot, and the captured
\* image as originalUrl, whatever is selected by then
C22_EntryRecordsRequest ==
    [][SuccessSettled =>
          /\ Head(gallery').originalUrl = args[1].imageBase64
          /\ Head(gallery').settings.backgroundName = args[1].background.name
          /\ Head(gallery').settings.type = args[1].background.type
          /\ Head(gallery').settings.value = args[1].background.value
          /\ Head(gallery').settings.lightingName = args[1].lighting.name
          /\ Head(gallery').settings.lightingDirection
                = args[1].settings.lightingDirection
      ]_vars

\* an entry was added for a request made with the preset background and the
\* light from the front, while by now an uploaded image and the light from
\* the left are selected and the next capture has not been triggered
C22_Witness ==
    /\ appState = "SUCCESS"
    /\ Len(gallery) = 1
    /\ gallery[1].settings.backgroundName = PRESET_BACKGROUNDS[1].name
    /\ gallery[1].settings.lightingDirection = "front"
    /\ gallery[1].originalUrl \in CaptureImages
    /\ selectedBg.type = "image"
    /\ settings.lightingDirection = "left"

\* C24: while a request is processed no step changes the selected
\* background, the selected lighting, the aspect ratio or the lighting
\* direction
C24_AsStated ==
    [][appState = "PROCESSING" =>
          UNCHANGED <<selectedBg, selectedLighting, settings>>]_vars

----------------------------------------------------------------------------
(* Claims about Camera *)

\* the stream attached to the video element of the mounted Camera, if any
AttachedStreams == IF cam.mounted /\ cam.srcObject # << >> THEN {cam.srcObject[1]} ELSE {}

\* C27: every stream acquired whose tracks are live is the one attached to
\* the video element, so that at most one is live, and none after unmount
C27_AsStated == cam.live \subseteq AttachedStreams

====
